---------------------------- MODULE Spec2Model ----------------------------
(***************************************************************************)
(* Model of the two portfolio Monte Carlo scripts                          *)
(*   portfolio_monte_carlo.py  (prog = "mc")                               *)
(*   portfolio_simulator.py    (prog = "sim")                              *)
(*                                                                         *)
(* Arithmetic.  Python floats are modelled by their value and their range, *)
(* not by their rounding: a finite result is exact, a result above the     *)
(* largest finite float is +inf, a positive result below the smallest      *)
(* positive float is 0.0, and inf/nan propagate as in IEEE 754.            *)
(*   - prices and portfolio values are counted in ticks of 1/TicksPerUnit; *)
(*   - log returns are counted in LogUnit steps and exp() multiplies by 2  *)
(*     per step (a monotone homomorphism, like exp);                       *)
(*   - covariances are counted in units of the regularization constant     *)
(*     (1e-6 in the code), one covariance unit being two LogUnits, so that *)
(*     0.5 * variance is a whole number of LogUnits;                       *)
(*   - square roots are taken on a grid of 1/Resolution;                   *)
(*   - returns and the statistics derived from them are exact rationals;   *)
(*   - typed allocations are counted in 1/1000 percent, weights are exact  *)
(*     rationals, share counts are whole numbers.                          *)
(***************************************************************************)
EXTENDS Integers, Sequences, FiniteSets, TLC

(***************************************************************************)
(* Bounds of the model                                                     *)
(***************************************************************************)
\* n_sims (5000 / 10000 in the code): the largest number of simulations
MaxSims == 2
\* horizon_days (252 in the code): the largest number of daily steps
MaxDays == 2
\* number of simulations whose full path the mc script recomputes ("sim < 100")
RetainedPaths == 1
\* fractional bits of a float: the smallest positive float is 2^-FracBits
FracBits == 2
\* exponent range of a float: the largest finite float is 2^MaxExp ticks
MaxExp == 21
\* square roots are computed to 1/Resolution
Resolution == 10

TicksPerUnit == 2 ^ FracBits
FloatMax == 2 ^ MaxExp

(***************************************************************************)
(* Floats: ticks with IEEE specials                                        *)
(***************************************************************************)
Fin(x) == [k |-> "fin", v |-> x]
Inf == [k |-> "inf", v |-> 0]
NaN == [k |-> "nan", v |-> 0]

IsFin(a) == a.k = "fin"
IsNaN(a) == a.k = "nan"
IsInf(a) == a.k = "inf"

\* a non-negative quantity of ticks as a float: overflow gives +inf
Clamp(x) == IF x > FloatMax THEN Inf ELSE Fin(x)

\* a + b for non-negative floats
AddF(a, b) ==
    IF IsNaN(a) \/ IsNaN(b) THEN NaN
    ELSE IF IsInf(a) \/ IsInf(b) THEN Inf
    ELSE Clamp(a.v + b.v)

\* np.exp(x), x a float holding a number of LogUnits: the result is the
\* multiplier 2^x, +inf above the float range and 0.0 below it
ExpF(x) ==
    IF IsNaN(x) THEN [k |-> "nan", e |-> 0]
    ELSE IF x.v > MaxExp THEN [k |-> "inf", e |-> 0]
    ELSE IF x.v < 0 - MaxExp THEN [k |-> "zero", e |-> 0]
    ELSE [k |-> "pow", e |-> x.v]

\* price * np.exp(x): p a price in ticks, m the multiplier ExpF(x)
MulExp(p, m) ==
    IF IsNaN(p) \/ m.k = "nan" THEN NaN
    ELSE IF m.k = "inf" THEN (IF IsFin(p) /\ p.v = 0 THEN NaN ELSE Inf)
    ELSE IF m.k = "zero" THEN (IF IsInf(p) THEN NaN ELSE Fin(0))
    ELSE IF IsInf(p) THEN Inf
    ELSE IF m.e >= 0
         THEN (IF p.v > FloatMax \div (2 ^ m.e) THEN Inf ELSE Fin(p.v * (2 ^ m.e)))
         ELSE Fin(p.v \div (2 ^ (0 - m.e)))

\* price * shares: p a price in ticks, s a whole number of shares >= 0
MulShares(p, s) ==
    IF IsNaN(p) THEN NaN
    ELSE IF IsInf(p) THEN (IF s = 0 THEN NaN ELSE Inf)
    ELSE IF s = 0 THEN Fin(0)
    ELSE IF p.v > FloatMax \div s THEN Inf
    ELSE Fin(p.v * s)

\* the largest r with r * r <= x
ISqrt(x) == CHOOSE r \in 0..x : r * r <= x /\ (r + 1) * (r + 1) > x

\* x / y rounded to the nearest whole number, y > 0
RoundDiv(x, y) ==
    IF x >= 0 THEN (2 * x + y) \div (2 * y)
    ELSE 0 - ((2 * (0 - x) + y) \div (2 * y))

Abs(x) == IF x < 0 THEN 0 - x ELSE x

RECURSIVE GCD(_, _)
GCD(a, b) == IF b = 0 THEN a ELSE GCD(b, a % b)


(***************************************************************************)
(* Exact rationals with IEEE specials: returns and their statistics        *)
(***************************************************************************)
Rat(n, d) ==
    LET g == GCD(Abs(n), d)
    IN  [k |-> "fin", n |-> n \div g, d |-> d \div g]
QInf == [k |-> "inf", n |-> 0, d |-> 1]
QNegInf == [k |-> "ninf", n |-> 0, d |-> 1]
QNaN == [k |-> "nan", n |-> 0, d |-> 1]

QNeg(a) ==
    CASE a.k = "fin" -> Rat(0 - a.n, a.d)
      [] a.k = "inf" -> QNegInf
      [] a.k = "ninf" -> QInf
      [] OTHER -> QNaN

\* the least common denominator of two fractions
LCD(a, b) == (a.d \div GCD(a.d, b.d)) * b.d

QAdd(a, b) ==
    IF a.k = "nan" \/ b.k = "nan" THEN QNaN
    ELSE IF a.k = "fin" /\ b.k = "fin"
         THEN Rat(a.n * (LCD(a, b) \div a.d) + b.n * (LCD(a, b) \div b.d), LCD(a, b))
    ELSE IF a.k = "fin" THEN b
    ELSE IF b.k = "fin" THEN a
    ELSE IF a.k = b.k THEN a
    ELSE QNaN

QSub(a, b) == QAdd(a, QNeg(b))

Sign(a) ==
    CASE a.k = "inf" -> 1
      [] a.k = "ninf" -> 0 - 1
      [] OTHER -> IF a.n > 0 THEN 1 ELSE IF a.n < 0 THEN 0 - 1 ELSE 0

QMul(a, b) ==
    IF a.k = "nan" \/ b.k = "nan" THEN QNaN
    ELSE IF a.k = "fin" /\ b.k = "fin" THEN Rat(a.n * b.n, a.d * b.d)
    ELSE IF Sign(a) * Sign(b) = 0 THEN QNaN
    ELSE IF Sign(a) * Sign(b) > 0 THEN QInf
    ELSE QNegInf

\* a / c for a whole number c > 0
QDivInt(a, c) == IF a.k = "fin" THEN Rat(a.n, a.d * c) ELSE a

\* a <= b and a < b as Python compares floats: False when either is nan
QLe(a, b) ==
    IF a.k = "nan" \/ b.k = "nan" THEN FALSE
    ELSE IF a.k = "ninf" \/ b.k = "inf" THEN TRUE
    ELSE IF a.k = "inf" \/ b.k = "ninf" THEN FALSE
    ELSE a.n * (LCD(a, b) \div a.d) <= b.n * (LCD(a, b) \div b.d)

QLt(a, b) ==
    IF a.k = "nan" \/ b.k = "nan" THEN FALSE
    ELSE QLe(a, b) /\ ~QLe(b, a)

QZero == Rat(0, 1)

RECURSIVE QSum(_)
QSum(s) == IF s = <<>> THEN QZero ELSE QAdd(Head(s), QSum(Tail(s)))

\* np.mean: nan for an empty array
QMean(s) == IF s = <<>> THEN QNaN ELSE QDivInt(QSum(s), Len(s))

\* the order np.sort gives: nan sorts last
SortLe(a, b) == b.k = "nan" \/ QLe(a, b)

RemoveAt(s, i) == [j \in 1..(Len(s) - 1) |-> IF j < i THEN s[j] ELSE s[j + 1]]

RECURSIVE QSort(_)
QSort(s) ==
    IF s = <<>> THEN <<>>
    ELSE LET i == CHOOSE i \in 1..Len(s) : \A j \in 1..Len(s) : SortLe(s[i], s[j])
         IN  <<s[i]>> \o QSort(RemoveAt(s, i))

HasNaN(s) == \E i \in 1..Len(s) : s[i].k = "nan"

\* the boolean selection a[mask] of numpy
RECURSIVE SelectLe(_, _)
SelectLe(s, bound) ==
    IF s = <<>> THEN <<>>
    ELSE (IF QLe(Head(s), bound) THEN <<Head(s)>> ELSE <<>>) \o SelectLe(Tail(s), bound)

RECURSIVE CountLt(_, _)
CountLt(s, bound) ==
    IF s = <<>> THEN 0
    ELSE (IF QLt(Head(s), bound) THEN 1 ELSE 0) + CountLt(Tail(s), bound)

(***************************************************************************)
(* Program constants                                                       *)
(***************************************************************************)
\* mc: shares_held = (weights * 100000) / initial_prices
SharesNotional == 100000
\* mc: initial_portfolio_value = 100000
initial_portfolio_value == 100000
\* mc: analyze_results, initial_value = 100000
analyzer_initial_value == 100000
\* sim: run_portfolio_simulation(..., initial_value=100000)
initial_value == 100000
\* the regularization constant 1e-6, the unit in which covariances are counted
Eps == 1

(***************************************************************************)
(* np.percentile, np.median and the risk metrics                           *)
(***************************************************************************)
\* returns = (final_values / initial_value) - 1, the final value in ticks
ReturnOf(f, iv) ==
    IF IsNaN(f) THEN QNaN
    ELSE IF IsInf(f) THEN QInf
    ELSE Rat(f.v - iv * TicksPerUnit, iv * TicksPerUnit)

Returns(finals, iv) == [i \in 1..Len(finals) |-> ReturnOf(finals[i], iv)]

\* numpy's _lerp(a, b, t): a + (b - a) * t, and b - (b - a) * (1 - t) for t >= 0.5
Lerp(a, b, t) ==
    LET diff == QSub(b, a)
    IN  IF QLt(t, Rat(1, 2))
        THEN QAdd(a, QMul(diff, t))
        ELSE QSub(b, QMul(diff, QSub(Rat(1, 1), t)))

\* np.percentile(a, q), method "linear": the virtual index is q/100 * (n - 1)
Percentile(a, q) ==
    LET n == Len(a)
        s == QSort(a)
        pos == q * (n - 1)
        lo == pos \div 100
        hi == IF lo + 1 > n - 1 THEN n - 1 ELSE lo + 1
    IN  IF HasNaN(a) THEN QNaN
        ELSE Lerp(s[lo + 1], s[hi + 1], Rat(pos % 100, 100))

\* np.median: the mean of the middle elements of the sorted array
Median(a) ==
    LET n == Len(a)
        s == QSort(a)
    IN  IF HasNaN(a) THEN QNaN
        ELSE IF n % 2 = 1 THEN s[(n + 1) \div 2]
        ELSE QMean(<<s[n \div 2], s[n \div 2 + 1]>>)

\* Variant of FractionNegative: a return of exactly 0 counts as a loss
FractionNegative_OrZero(r) == Rat(Len(SelectLe(r, QZero)), Len(r))

\* np.mean(returns < 0)
FractionNegative(r) == Rat(CountLt(r, QZero), Len(r))

\* Variant of CVaR: the mean of the tail above the threshold
CVaR_UpperTail(r, var) == QMean(SelectLe([i \in 1..Len(r) |-> QNeg(r[i])], QNeg(var)))

\* cvar_5 = np.mean(returns[returns <= var_5])
CVaR(r, var) == QMean(SelectLe(r, var))

Ladder == <<1, 5, 10, 25, 50, 75, 90, 95, 99>>

\* analyze_results(portfolio_paths, ...): final_values is the last row
analyze_results(final_values) ==
    LET r == Returns(final_values, analyzer_initial_value)
        var_5 == Percentile(r, 5)
    IN  [ by |-> "analyze_results",
          final_values |-> final_values,
          returns |-> r,
          mean_return |-> QMean(r),
          median_return |-> Median(r),
          prob_loss |-> QMul(FractionNegative(r), Rat(100, 1)),
          var_5 |-> var_5,
          var_1 |-> Percentile(r, 1),
          cvar_5 |-> CVaR(r, var_5),
          percentiles |-> [i \in 1..Len(Ladder) |-> Percentile(r, Ladder[i])] ]

\* display_results(...): the metrics computed from simulation_results['returns']
display_results(final_values, r) ==
    [ by |-> "display_results",
      final_values |-> final_values,
      returns |-> r,
      mean_return |-> QMean(r),
      median_return |-> Median(r),
      prob_loss |-> FractionNegative(r),
      var_5 |-> Percentile(r, 5),
      var_1 |-> Percentile(r, 1),
      cvar_5 |-> QNaN,
      percentiles |-> <<>> ]

NoReport == [by |-> "none"]

(***************************************************************************)
(* Covariance matrices and their Cholesky factor                           *)
(***************************************************************************)
\* An n x n array is [nan |-> every entry is nan, m |-> the entries]
Mat(m) == [nan |-> FALSE, m |-> m]
NaNMat(n) == [nan |-> TRUE, m |-> [i \in 1..n |-> [j \in 1..n |-> 0]]]
Dim(a) == Len(a.m)
Diag(a, i) == a.m[i][i]

\* sqrt(x) on the grid of 1/Resolution, x a whole number of covariance units
SqrtR(x) == ISqrt(x * Resolution * Resolution)

LinAlgError == [ok |-> FALSE, nan |-> FALSE, L |-> <<>>]
Factor(L) == [ok |-> TRUE, nan |-> FALSE, L |-> L]
NaNFactor == [ok |-> TRUE, nan |-> TRUE, L |-> <<>>]

\* LAPACK potrf on finite entries: a pivot <= 0 ends it with an error
\* row i of the factor, given the rows above it; << >> on a failed pivot.
\* The entries are counted in 1/Resolution: L * L^T = m * Resolution^2.
RECURSIVE SumProd(_, _, _)
SumProd(a, b, k) == IF k = 0 THEN 0 ELSE a[k] * b[k] + SumProd(a, b, k - 1)

RECURSIVE CholRow(_, _, _, _)
CholRow(m, L, i, acc) ==
    LET j == Len(acc) + 1
    IN  IF j < i
        THEN CholRow(m, L, i,
                     Append(acc, RoundDiv(m[i][j] * Resolution * Resolution
                                            - SumProd(acc, L[j], j - 1),
                                          L[j][j])))
        ELSE LET piv == m[i][i] * Resolution * Resolution - SumProd(acc, acc, i - 1)
             IN  IF piv <= 0 THEN << >>
                 ELSE [c \in 1..Len(m) |->
                         IF c < i THEN acc[c] ELSE IF c = i THEN ISqrt(piv) ELSE 0]

RECURSIVE CholRows(_, _)
CholRows(m, L) ==
    IF Len(L) = Len(m) THEN Factor(L)
    ELSE LET row == CholRow(m, L, Len(L) + 1, << >>)
         IN  IF row = << >> THEN LinAlgError ELSE CholRows(m, Append(L, row))

CholeskyFinite(m) == CholRows(m, << >>)

\* np.linalg.cholesky(a).  On nan entries the outcome depends on the LAPACK
\* build: the reference routine reports a failed pivot, others compare
\* "pivot <= 0", which nan does not satisfy, and return a nan factor.
CholeskyOutcomes(a) ==
    IF a.nan THEN {LinAlgError, NaNFactor} ELSE {CholeskyFinite(a.m)}

\* a + np.eye(k) * 1e-6, k the dimension the caller gives to np.eye;
\* numpy raises ValueError when the shapes differ
CanAddEye(a, k) == Dim(a) = k
AddEye(a) ==
    IF a.nan THEN a
    ELSE Mat([i \in 1..Dim(a) |-> [j \in 1..Dim(a) |->
                 IF i = j THEN a.m[i][j] + Eps ELSE a.m[i][j]]])

(***************************************************************************)
(* The GBM step                                                            *)
(***************************************************************************)
\* chol @ z, in units of 1/Resolution
Correlated(c, z, i) == SumProd(c.L[i], z, Len(z))

\* drift + diffusion for asset i, in LogUnits:
\*   drift = (mu - 0.5 * np.diag(cov)) * dt
\*   diffusion = np.sqrt(np.diag(cov) * dt) * correlated
LogStep(mu, cov, c, z, i) ==
    IF cov.nan \/ c.nan \/ IsNaN(mu[i]) THEN NaN
    ELSE LET drift == mu[i].v - Diag(cov, i)
             diffusion == RoundDiv(2 * SqrtR(Diag(cov, i)) * Correlated(c, z, i),
                                   Resolution * Resolution)
         IN  Fin(drift + diffusion)

\* prices * np.exp(drift + diffusion)
GbmStep(prices, mu, cov, c, z) ==
    [i \in 1..Len(prices) |-> MulExp(prices[i], ExpF(LogStep(mu, cov, c, z, i)))]

\* shares = (V0 * weights) / last_prices, a whole number of shares
Shares(v0, w, p0) == [i \in 1..Len(p0) |-> (v0 * w[i].n) \div (w[i].d * p0[i])]

\* np.sum(prices * shares) / np.dot(prices, shares)
RECURSIVE DotFrom(_, _, _)
DotFrom(prices, sh, i) ==
    IF i > Len(prices) THEN Fin(0)
    ELSE AddF(MulShares(prices[i], sh[i]), DotFrom(prices, sh, i + 1))
Dot(prices, sh) == DotFrom(prices, sh, 1)

\* a price of the panel, in ticks
Ticks(p) == [i \in 1..Len(p) |-> Fin(p[i] * TicksPerUnit)]

(***************************************************************************)
(* The global random generator                                             *)
(***************************************************************************)
\* The generator is a deterministic state machine: np.random.seed sets its
\* state, every draw returns a value of the state and advances it.
RngStates == 0..8
SeedState(seed) == seed % 9
NextRng(s) == (4 * s + 1) % 9
Normal(s) == (s \div 3) - 1

\* the states the generator is given at start-up when nothing seeds it:
\* one for each value of the first draw
EntropyStates == {0, 4, 8}

RECURSIVE Advance(_, _)
Advance(s, k) == IF k = 0 THEN s ELSE Advance(NextRng(s), k - 1)

\* np.random.normal(size=n) from state s: n draws
NormalVec(s, n) == [i \in 1..n |-> Normal(Advance(s, i - 1))]

(***************************************************************************)
(* The portfolio typed by the user                                         *)
(***************************************************************************)
\* the longest sequence of lines typed before 'done'
MaxEntries == 2

\* allocations are typed in percent; the model counts them in 1/1000 percent
PercentUnits == 10 ^ 3
Hundred == 100 * PercentUnits

Tickers == {"AAPL", "MSFT"}
\* 40, 60, 59.992, 0 and 150 percent
TypedAllocations == {40 * PercentUnits, 60 * PercentUnits, 59992, 0, 150 * PercentUnits}

\* a line of input: a ticker and an allocation, or something else
Malformed == [ok |-> FALSE, ticker |-> "", alloc |-> 0]
Lines ==
    {Malformed} \cup
    { [ok |-> TRUE, ticker |-> t, alloc |-> a] : t \in Tickers, a \in TypedAllocations }

TypedSeqs == UNION { [1..n -> Lines] : n \in 0..MaxEntries }

Range(s) == { s[i] : i \in 1..Len(s) }

\* if allocation <= 0 or allocation > 100: rejected
InRange(a) == a > 0 /\ a <= Hundred

DefaultTickers == << "AAPL", "MSFT", "GOOGL" >>

\* mc, the loop of get_user_portfolio: portfolio is a dict (keys in the
\* order of their first insertion), total_allocation a running sum
RECURSIVE McLoop(_, _)
McLoop(st, typed) ==
    IF typed = <<>> THEN st
    ELSE LET e == Head(typed)
         IN  IF ~e.ok \/ ~InRange(e.alloc) \/ st.total + e.alloc > Hundred
             THEN McLoop(st, Tail(typed))
             ELSE McLoop([ keys |-> IF e.ticker \in Range(st.keys) THEN st.keys
                                    ELSE Append(st.keys, e.ticker),
                           alloc |-> [t \in (DOMAIN st.alloc) \cup {e.ticker} |->
                                        IF t = e.ticker THEN e.alloc ELSE st.alloc[t]],
                           total |-> st.total + e.alloc ],
                         Tail(typed))

\* get_user_portfolio(): the dict ticker -> percent, as the sequence of its
\* keys and the sequence of their values
get_user_portfolio(typed) ==
    LET st == McLoop([keys |-> <<>>, alloc |-> << >>, total |-> 0], typed)
    IN  IF st.keys = <<>>
        THEN [ tickers |-> DefaultTickers,
               values |-> << Rat(40, 1), Rat(30, 1), Rat(30, 1) >> ]
        ELSE IF st.total # Hundred
        THEN [ tickers |-> st.keys,
               values |-> [i \in 1..Len(st.keys) |->
                             Rat(st.alloc[st.keys[i]] * 100, st.total)] ]
        ELSE [ tickers |-> st.keys,
               values |-> [i \in 1..Len(st.keys) |->
                             Rat(st.alloc[st.keys[i]], PercentUnits)] ]

\* sim, the loop of get_portfolio_input: two lists and a running sum
RECURSIVE SimLoop(_, _)
SimLoop(st, typed) ==
    IF typed = <<>> THEN st
    ELSE LET e == Head(typed)
         IN  IF ~e.ok \/ ~InRange(e.alloc)
             THEN SimLoop(st, Tail(typed))
             ELSE SimLoop([ stocks |-> Append(st.stocks, e.ticker),
                            alloc |-> Append(st.alloc, e.alloc),
                            total |-> st.total + e.alloc ],
                          Tail(typed))

\* get_portfolio_input(): the lists stocks and weights (fractions)
get_portfolio_input(typed) ==
    LET st == SimLoop([stocks |-> <<>>, alloc |-> <<>>, total |-> 0], typed)
    IN  IF st.stocks = <<>>
        THEN [ tickers |-> DefaultTickers,
               values |-> << Rat(4, 10), Rat(3, 10), Rat(3, 10) >> ]
        ELSE IF Abs(st.total - Hundred) * 100 > PercentUnits
        THEN [ tickers |-> st.stocks,
               values |-> [i \in 1..Len(st.stocks) |-> Rat(st.alloc[i], st.total)] ]
        ELSE [ tickers |-> st.stocks,
               values |-> [i \in 1..Len(st.stocks) |-> Rat(st.alloc[i], Hundred)] ]

(***************************************************************************)
(* Inputs: what the estimation step reads off the cleaned price panel      *)
(***************************************************************************)
\* n assets; T rows of prices; mu = returns.mean() in LogUnits; cov =
\* returns.cov() in covariance units; p0 = prices.iloc[-1]; positive = every
\* price of the panel is > 0.  With T = 2 there is one return per asset and the sample
\* covariance (ddof = 1) is nan.  With T = 1 there is no return: the mean
\* of the empty sample is nan as well.
OneAsset(T, mu, var, p0) ==
    [n |-> 1, T |-> T, positive |-> TRUE,
     mu |-> IF T < 2 THEN <<NaN>> ELSE <<Fin(mu)>>,
     cov |-> IF T < 3 THEN NaNMat(1) ELSE Mat(<<<<var>>>>),
     p0 |-> <<p0>>]

TwoAssets(T, mu, a, b, c, p0) ==
    [n |-> 2, T |-> T, positive |-> TRUE,
     mu |-> <<Fin(mu[1]), Fin(mu[2])>>,
     cov |-> IF T < 3 THEN NaNMat(2) ELSE Mat(<<<<a, b>>, <<b, c>>>>),
     p0 |-> p0]

\* three assets without correlation
ThreeAssets(T, mu, var, p0) ==
    [n |-> 3, T |-> T, positive |-> TRUE,
     mu |-> <<Fin(mu[1]), Fin(mu[2]), Fin(mu[3])>>,
     cov |-> Mat([i \in 1..3 |-> [j \in 1..3 |-> IF i = j THEN var[i] ELSE 0]]),
     p0 |-> p0]

\* a panel with a price of 0 in its history: the log returns around it are
\* -inf and +inf, their mean and their covariance are nan
ZeroPrice(p0) ==
    [n |-> 1, T |-> 3, positive |-> FALSE,
     mu |-> <<NaN>>, cov |-> NaNMat(1), p0 |-> <<p0>>]

\* no panel yet
NoPanel ==
    [n |-> 0, T |-> 0, positive |-> TRUE, mu |-> << >>, cov |-> Mat(<< >>), p0 |-> << >>]

Scenarios ==
    { OneAsset(3, 0, 0, 1),          \* constant price history
      OneAsset(3, 0, 1, 2),          \* a calm asset
      OneAsset(3, 3, 1, 1),          \* strong growth
      OneAsset(3, 0, 2, 1),          \* a very volatile asset
      OneAsset(2, 1, 0, 1),          \* two observations only
      OneAsset(1, 0, 0, 1),          \* a single observation
      ZeroPrice(1),                  \* a price of 0 in the history
      TwoAssets(3, <<0, 1>>, 1, 0, 1, <<1, 2>>),   \* uncorrelated
      TwoAssets(3, <<0, 0>>, 0, 0, 0, <<2, 1>>),   \* both constant
      TwoAssets(3, <<0, 0>>, 4, 4, 4, <<1, 1>>),   \* perfectly correlated
      TwoAssets(3, <<1, 0>>, 0, 0, 3, <<1, 2>>),   \* one constant
      TwoAssets(2, <<0, 1>>, 0, 0, 0, <<1, 1>>),   \* two observations only
      ThreeAssets(3, <<0, 1, 0>>, <<1, 0, 1>>, <<1, 2, 1>>) }  \* one constant of three

ScenariosOf(n) == { s \in Scenarios : s.n = n }

(***************************************************************************)
(* State                                                                   *)
(***************************************************************************)
VARIABLES
    prog,            \* which script runs: "mc" or "sim"
    pc,              \* position of main() and of the simulation function
    outcome,         \* "running", "completed", "error", "interrupted", "killed"
    sigint,          \* a SIGINT has arrived and KeyboardInterrupt is pending
    tickers,         \* mc: keys of the portfolio dict; sim: the list stocks
    portfolio,       \* mc: values of the dict, in percent; sim: the list weights
    columns,         \* prices.columns of the cleaned panel
    scen,            \* what the estimation reads off the cleaned panel
    weights,         \* the weight vector the simulation uses
    n_sims,
    horizon_days,
    rng,             \* state of the global generator
    seeded,          \* np.random.seed has been called
    draws,           \* number of values drawn so far
    daily_returns,
    daily_cov,       \* the covariance array, changed in place by the fallback
    chol,
    chol_calls,      \* calls of np.linalg.cholesky
    chol_errors,     \* of which raised LinAlgError
    reg_steps,       \* executions of "cov += np.eye(n) * 1e-6"
    shares_held,
    random_base,     \* mc: generator state from which random_matrix was drawn
    sim,
    day,
    current_prices,
    temp_prices,     \* mc: prices of the second pass
    portfolio_paths,
    final_prices,    \* mc: individual_final_prices, one price vector per sim
    stock_paths,     \* sim: sim_stock_paths[t][sim], a price vector
    steps,           \* GBM updates executed
    batch,           \* what the simulation function returned to main()
    report,
    displayed,
    visualized

vars == << prog, pc, outcome, sigint, tickers, portfolio, columns, scen, weights,
           n_sims, horizon_days, rng, seeded,
           draws, daily_returns, daily_cov, chol, chol_calls, chol_errors,
           reg_steps, shares_held, random_base, sim, day, current_prices,
           temp_prices, portfolio_paths, final_prices, stock_paths, steps,
           batch, report, displayed, visualized >>

inputs == << prog, n_sims, horizon_days, tickers, portfolio, columns, scen, weights >>
rngVars == << rng, seeded, draws >>
factorVars == << daily_returns, daily_cov, chol, chol_calls, chol_errors, reg_steps >>
loopVars == << shares_held, random_base, sim, day, current_prices, temp_prices,
               portfolio_paths, final_prices, stock_paths, steps >>
outVars == << batch, report, displayed, visualized >>

NoArray == <<>>
NoBatch == [bound |-> FALSE]
NoFactor == [ok |-> FALSE, nan |-> FALSE, L |-> <<>>]

Seed == 42

InitRun ==
    /\ pc = "main"
    /\ tickers = << >>
    /\ portfolio = << >>
    /\ columns = << >>
    /\ scen = NoPanel
    /\ weights = << >>
    /\ outcome = "running"
    /\ sigint = FALSE
    /\ seeded = FALSE
    /\ draws = 0
    /\ daily_returns = NoArray
    /\ daily_cov = Mat(<<>>)
    /\ chol = NoFactor
    /\ chol_calls = 0
    /\ chol_errors = 0
    /\ reg_steps = 0
    /\ shares_held = NoArray
    /\ random_base = 0
    /\ sim = 0
    /\ day = 0
    /\ current_prices = NoArray
    /\ temp_prices = NoArray
    /\ portfolio_paths = NoArray
    /\ final_prices = NoArray
    /\ stock_paths = NoArray
    /\ steps = 0
    /\ batch = NoBatch
    /\ report = NoReport
    /\ displayed = FALSE
    /\ visualized = FALSE

Init ==
    /\ prog \in {"mc", "sim"}
    /\ n_sims \in 1..MaxSims
    /\ horizon_days \in 1..MaxDays
    /\ rng \in EntropyStates      \* the generator starts from OS entropy
    /\ InitRun

(***************************************************************************)
(* Exceptions                                                              *)
(***************************************************************************)
\* An exception leaves the simulation function and main(): their locals are
\* dropped.  main() of mc catches KeyboardInterrupt and Exception; main() of
\* sim catches Exception only, so KeyboardInterrupt ends the process.
Unwind(o) ==
    /\ pc' = "exit"
    /\ outcome' = o
    /\ shares_held' = NoArray
    /\ current_prices' = NoArray
    /\ temp_prices' = NoArray
    /\ portfolio_paths' = NoArray
    /\ final_prices' = NoArray
    /\ stock_paths' = NoArray
    /\ batch' = NoBatch
    /\ UNCHANGED << random_base, sim, day, steps >>

Running == outcome = "running" /\ ~sigint

Zeros(n) == [i \in 1..n |-> Fin(0)]
Full(n, x) == [i \in 1..n |-> x]

(***************************************************************************)
(* main() up to the simulation                                             *)
(***************************************************************************)
\* sim: np.random.seed(42); mc: start_time = time.time()
Start ==
    /\ Running /\ pc = "main"
    /\ IF prog = "sim"
       THEN rng' = SeedState(Seed) /\ seeded' = TRUE
       ELSE UNCHANGED << rng, seeded >>
    /\ pc' = "input"
    /\ UNCHANGED << outcome, sigint, inputs, draws, factorVars, loopVars, outVars >>

\* mc: portfolio_composition = get_user_portfolio()
\* sim: tickers, weights = get_portfolio_input()
GetPortfolio ==
    /\ Running /\ pc = "input"
    /\ \E typed \in TypedSeqs :
         LET p == IF prog = "mc" THEN get_user_portfolio(typed)
                  ELSE get_portfolio_input(typed)
         IN  /\ tickers' = p.tickers
             /\ portfolio' = p.values
    /\ pc' = "download"
    /\ UNCHANGED << outcome, sigint, prog, n_sims, horizon_days, columns, scen, weights,
                    rngVars, factorVars, loopVars, outVars >>

\* the tickers of a list, each once, in the order of their first occurrence
RECURSIVE Unique(_)
Unique(s) ==
    IF s = << >> THEN << >>
    ELSE LET r == Unique(SubSeq(s, 1, Len(s) - 1))
         IN  IF s[Len(s)] \in Range(r) THEN r ELSE Append(r, s[Len(s)])

\* alphabetical order of the ticker symbols
Rank(t) == CASE t = "AAPL" -> 1 [] t = "GOOGL" -> 2 [] t = "MSFT" -> 3

RECURSIVE Sorted(_)
Sorted(s) ==
    IF s = << >> THEN << >>
    ELSE LET i == CHOOSE i \in 1..Len(s) : \A j \in 1..Len(s) : Rank(s[i]) <= Rank(s[j])
         IN  << s[i] >> \o Sorted(RemoveAt(s, i))

\* the entries of s at the positions in S, in order
RECURSIVE Pick(_, _)
Pick(s, S) ==
    IF s = << >> THEN << >>
    ELSE Pick(SubSeq(s, 1, Len(s) - 1), S) \o (IF Len(s) \in S THEN << s[Len(s)] >> ELSE << >>)

\* prices.columns after the download.  The bulk download (yf.download)
\* returns one column per ticker, in the order asked or in alphabetical
\* order; when it raises, the tickers are fetched one by one into a dict:
\* mc skips a ticker without data, sim raises ValueError for it.
\* << >> stands for the ValueError of either script.
PanelColumns ==
    LET u == Unique(tickers)
    IN  {u, Sorted(u), << >>} \cup
        (IF prog = "mc" THEN { Pick(u, S) : S \in SUBSET (1..Len(u)) } ELSE {})

\* prices = download_portfolio_data(...): ValueError when no data was
\* downloaded or when prices.dropna() is empty
Download ==
    /\ Running /\ pc = "download"
    /\ \E cols \in PanelColumns :
         \E s \in ScenariosOf(Len(cols)) \cup {NoPanel} :
            IF cols = << >> \/ s = NoPanel
            THEN /\ Unwind("error")
                 /\ UNCHANGED << columns, scen >>
            ELSE /\ columns' = cols
                 /\ scen' = s
                 /\ pc' = "estimate"
                 /\ UNCHANGED << outcome, loopVars, batch >>
    /\ UNCHANGED << sigint, prog, n_sims, horizon_days, tickers, portfolio, weights,
                    rngVars, factorVars, report, displayed, visualized >>

\* position of ticker t in the list s
IndexOf(s, t) == CHOOSE i \in 1..Len(s) : s[i] = t

\* returns = np.log(prices / prices.shift(1)).dropna();
\* returns.mean().values, returns.cov().values
\* mc: weights = np.array([portfolio[ticker]/100 for ticker in prices.columns])
\* sim: calculate_portfolio_metrics: (returns * weights) raises ValueError
\*      when the list is not as long as the panel has columns
Estimate ==
    /\ Running /\ pc = "estimate"
    /\ IF prog = "sim" /\ Len(portfolio) # Len(columns)
       THEN /\ Unwind("error")
            /\ UNCHANGED << weights, daily_returns, daily_cov >>
       ELSE /\ weights' = IF prog = "sim" THEN portfolio
                          ELSE [i \in 1..Len(columns) |->
                                  QDivInt(portfolio[IndexOf(tickers, columns[i])], 100)]
            /\ daily_returns' = scen.mu
            /\ daily_cov' = scen.cov
            /\ pc' = "chol"
            /\ UNCHANGED << outcome, loopVars, batch >>
    /\ UNCHANGED << sigint, prog, n_sims, horizon_days, tickers, portfolio, columns,
                    scen, rngVars, chol, chol_calls, chol_errors, reg_steps,
                    report, displayed, visualized >>

(***************************************************************************)
(* Factorization: try / except np.linalg.LinAlgError                       *)
(***************************************************************************)
\* try: chol = np.linalg.cholesky(cov)
Factorize ==
    /\ Running /\ pc = "chol"
    /\ chol_calls' = chol_calls + 1
    /\ \E out \in CholeskyOutcomes(daily_cov) :
         IF out.ok
         THEN /\ chol' = out
              /\ pc' = "setup"
              /\ UNCHANGED chol_errors
         ELSE /\ chol_errors' = chol_errors + 1
              /\ pc' = "chol_retry"
              /\ UNCHANGED chol
    /\ UNCHANGED << outcome, sigint, inputs, rngVars, daily_returns, daily_cov,
                    reg_steps, loopVars, outVars >>

\* the dimension the script gives to np.eye
EyeDim == IF prog = "mc" THEN Dim(daily_cov) ELSE Len(weights)

\* Variant of FactorizeRetry: a failed retry regularizes and tries again
FactorizeRetry_Escalating ==
    /\ Running /\ pc = "chol_retry"
    /\ UNCHANGED << sigint, inputs, rngVars, daily_returns, outVars, outcome, loopVars >>
    /\ daily_cov' = AddEye(daily_cov)
    /\ reg_steps' = reg_steps + 1
    /\ chol_calls' = chol_calls + 1
    /\ \E out \in CholeskyOutcomes(AddEye(daily_cov)) :
         IF out.ok
         THEN chol' = out /\ pc' = "setup" /\ UNCHANGED chol_errors
         ELSE chol_errors' = chol_errors + 1 /\ chol' = chol /\ pc' = "chol_retry"

\* Variant of FactorizeRetry: a failed retry is swallowed and the run goes on
FactorizeRetry_Swallowing ==
    /\ Running /\ pc = "chol_retry"
    /\ UNCHANGED << sigint, inputs, rngVars, daily_returns, outVars, outcome, loopVars >>
    /\ daily_cov' = AddEye(daily_cov)
    /\ reg_steps' = reg_steps + 1
    /\ chol_calls' = chol_calls + 1
    /\ pc' = "setup"
    /\ \E out \in CholeskyOutcomes(AddEye(daily_cov)) :
         IF out.ok
         THEN chol' = out /\ UNCHANGED chol_errors
         ELSE chol_errors' = chol_errors + 1 /\ chol' = NaNFactor

\* except LinAlgError: cov += np.eye(n) * 1e-6; chol = np.linalg.cholesky(cov)
\* A second LinAlgError is raised inside the handler and leaves the function.
FactorizeRetry ==
    /\ Running /\ pc = "chol_retry"
    /\ UNCHANGED << sigint, inputs, rngVars, daily_returns, outVars  >>
    /\ IF ~CanAddEye(daily_cov, EyeDim)
       THEN /\ Unwind("error")
            /\ UNCHANGED << daily_cov, chol, chol_calls, chol_errors, reg_steps >>
       ELSE /\ daily_cov' = AddEye(daily_cov)
            /\ reg_steps' = reg_steps + 1
            /\ chol_calls' = chol_calls + 1
            /\ \E out \in CholeskyOutcomes(AddEye(daily_cov)) :
                 IF out.ok
                 THEN /\ chol' = out
                      /\ pc' = "setup"
                      /\ UNCHANGED << outcome, chol_errors, loopVars, batch >>
                 ELSE /\ chol_errors' = chol_errors + 1
                      /\ chol' = chol
                      /\ Unwind("error")

(***************************************************************************)
(* The simulation                                                          *)
(***************************************************************************)
InitialPrices == Ticks(scen.p0)
NAssets == scen.n

\* mc: shares_held, portfolio_paths, individual_final_prices, random_matrix
\* sim: shares_per_stock, sim_portfolio_values, sim_stock_paths
\* and the entry into the loop over simulations
Setup ==
    /\ Running /\ pc = "setup"
    /\ IF prog = "mc"
       THEN /\ shares_held' = Shares(SharesNotional, weights, scen.p0)
            /\ portfolio_paths' =
                 [t \in 0..horizon_days |->
                    IF t = 0 THEN Full(n_sims, Fin(initial_portfolio_value * TicksPerUnit))
                    ELSE Zeros(n_sims)]
            /\ final_prices' = [i \in 1..n_sims |-> Zeros(NAssets)]
            /\ stock_paths' = NoArray
            /\ random_base' = rng
            /\ rng' = Advance(rng, n_sims * horizon_days * NAssets)
            /\ draws' = draws + n_sims * horizon_days * NAssets
       ELSE /\ shares_held' = Shares(initial_value, weights, scen.p0)
            /\ portfolio_paths' =
                 [t \in 0..horizon_days |->
                    IF t = 0 THEN Full(n_sims, Fin(initial_value * TicksPerUnit))
                    ELSE Zeros(n_sims)]
            /\ stock_paths' =
                 [t \in 0..horizon_days |->
                    IF t = 0 THEN Full(n_sims, InitialPrices)
                    ELSE Full(n_sims, Zeros(Len(weights)))]
            /\ final_prices' = NoArray
            /\ UNCHANGED << random_base, rng, draws >>
    /\ sim' = 0
    /\ day' = 0
    /\ current_prices' = InitialPrices
    /\ pc' = "step"
    /\ UNCHANGED << outcome, sigint, inputs, seeded, factorVars, temp_prices,
                    steps, outVars >>

\* random_matrix[s, d, :]
RandomMatrix(s, d) ==
    NormalVec(Advance(random_base, (s * horizon_days + d) * NAssets), NAssets)

SetEntry(a, t, s, x) == [a EXCEPT ![t] = [@ EXCEPT ![s + 1] = x]]

\* the next simulation, or the end of the loop
NextSim ==
    /\ sim' = sim + 1
    /\ day' = 0
    /\ IF sim + 1 < n_sims
       THEN /\ current_prices' = InitialPrices
            /\ pc' = "step"
       ELSE /\ current_prices' = current_prices
            /\ pc' = "return"

\* One day of one path.
\* mc, first pass: current_prices *= np.exp(drift + diffusion)
\* sim: z = np.random.normal(size=n_assets); the update; the stores
Step ==
    /\ Running /\ pc = "step"
    /\ steps' = steps + 1
    /\ IF prog = "mc"
       THEN /\ current_prices' = GbmStep(current_prices, daily_returns, daily_cov, chol,
                                         RandomMatrix(sim, day))
            /\ day' = day + 1
            /\ pc' = IF day + 1 < horizon_days THEN "step" ELSE "store"
            /\ UNCHANGED << rngVars, sim, portfolio_paths, stock_paths >>
       ELSE LET z == NormalVec(rng, Len(weights))
                new == GbmStep(current_prices, daily_returns, daily_cov, chol, z)
            IN  /\ rng' = Advance(rng, Len(weights))
                /\ draws' = draws + Len(weights)
                /\ stock_paths' = SetEntry(stock_paths, day + 1, sim, new)
                /\ portfolio_paths' =
                     SetEntry(portfolio_paths, day + 1, sim, Dot(new, shares_held))
                /\ IF day + 1 < horizon_days
                   THEN /\ current_prices' = new
                        /\ day' = day + 1
                        /\ pc' = "step"
                        /\ sim' = sim
                   ELSE NextSim
                /\ UNCHANGED seeded
    /\ UNCHANGED << outcome, sigint, inputs, factorVars, shares_held, random_base,
                    temp_prices, final_prices, outVars >>

\* Variant of Store: the holdings are rebalanced to the target weights at
\* the end of a path
Store_Rebalancing ==
    /\ Running /\ pc = "store"
    /\ final_prices' = [final_prices EXCEPT ![sim + 1] = current_prices]
    /\ portfolio_paths' =
         SetEntry(portfolio_paths, horizon_days, sim, Dot(current_prices, shares_held))
    /\ shares_held' = [i \in 1..Len(shares_held) |-> shares_held[i] + 1]
    /\ IF sim < RetainedPaths
       THEN /\ temp_prices' = InitialPrices
            /\ day' = 1
            /\ pc' = "replay"
            /\ UNCHANGED << sim, current_prices >>
       ELSE /\ NextSim
            /\ UNCHANGED temp_prices
    /\ UNCHANGED << outcome, sigint, inputs, rngVars, factorVars,
                    random_base, stock_paths, steps, outVars >>

\* mc: individual_final_prices[:, sim] = current_prices;
\*     portfolio_paths[-1, sim] = np.sum(current_prices * shares_held);
\*     if sim < 100: temp_prices = initial_prices.copy()
Store ==
    /\ Running /\ pc = "store"
    /\ final_prices' = [final_prices EXCEPT ![sim + 1] = current_prices]
    /\ portfolio_paths' =
         SetEntry(portfolio_paths, horizon_days, sim, Dot(current_prices, shares_held))
    /\ IF sim < RetainedPaths
       THEN /\ temp_prices' = InitialPrices
            /\ day' = 1
            /\ pc' = "replay"
            /\ UNCHANGED << sim, current_prices >>
       ELSE /\ NextSim
            /\ UNCHANGED temp_prices
    /\ UNCHANGED << outcome, sigint, inputs, rngVars, factorVars, shares_held,
                    random_base, stock_paths, steps, outVars >>

\* Variant of Replay: the second pass draws its shocks afresh
Replay_Redrawing ==
    /\ Running /\ pc = "replay"
    /\ steps' = steps + 1
    /\ rng' = Advance(rng, NAssets)
    /\ draws' = draws + NAssets
    /\ LET new == GbmStep(temp_prices, daily_returns, daily_cov, chol,
                          NormalVec(rng, NAssets))
       IN  /\ temp_prices' = new
           /\ portfolio_paths' = SetEntry(portfolio_paths, day, sim, Dot(new, shares_held))
    /\ IF day < horizon_days
       THEN /\ day' = day + 1
            /\ UNCHANGED << pc, sim, current_prices >>
       ELSE NextSim
    /\ UNCHANGED << outcome, sigint, inputs, seeded, factorVars, shares_held,
                    random_base, final_prices, stock_paths, outVars >>

\* mc, second pass: for day in range(1, horizon_days + 1):
\*     temp_prices *= np.exp(...); portfolio_paths[day, sim] = np.sum(...)
Replay ==
    /\ Running /\ pc = "replay"
    /\ steps' = steps + 1
    /\ LET new == GbmStep(temp_prices, daily_returns, daily_cov, chol,
                          RandomMatrix(sim, day - 1))
       IN  /\ temp_prices' = new
           /\ portfolio_paths' = SetEntry(portfolio_paths, day, sim, Dot(new, shares_held))
    /\ IF day < horizon_days
       THEN /\ day' = day + 1
            /\ UNCHANGED << pc, sim, current_prices >>
       ELSE NextSim
    /\ UNCHANGED << outcome, sigint, inputs, rngVars, factorVars, shares_held,
                    random_base, final_prices, stock_paths, outVars >>

\* return portfolio_paths, individual_paths            (mc)
\* sim_returns = (sim_portfolio_values[-1, :] / initial_value) - 1; return {...}  (sim)
Return ==
    /\ Running /\ pc = "return"
    /\ batch' = [ bound |-> TRUE,
                  portfolio_paths |-> portfolio_paths,
                  final_values |-> portfolio_paths[horizon_days],
                  returns |-> IF prog = "sim"
                              THEN Returns(portfolio_paths[horizon_days], initial_value)
                              ELSE <<>> ]
    /\ pc' = "analyze"
    /\ UNCHANGED << outcome, sigint, inputs, rngVars, factorVars, loopVars,
                    report, displayed, visualized >>

(***************************************************************************)
(* main() after the simulation                                             *)
(***************************************************************************)
\* mc: results = analyze_results(portfolio_paths, stats, portfolio_composition)
\* sim: display_results(tickers, weights, metrics, simulation_results, ...)
Analyze ==
    /\ Running /\ pc = "analyze"
    /\ IF prog = "mc"
       THEN /\ report' = analyze_results(batch.portfolio_paths[horizon_days])
            /\ pc' = "print"
            /\ UNCHANGED displayed
       ELSE /\ report' = display_results(batch.final_values, batch.returns)
            /\ displayed' = TRUE
            /\ pc' = "visualize"
    /\ UNCHANGED << outcome, sigint, inputs, rngVars, factorVars, loopVars,
                    batch, visualized >>

\* mc: print_detailed_results(results, stats, portfolio_composition, execution_time)
PrintResults ==
    /\ Running /\ pc = "print"
    /\ displayed' = TRUE
    /\ pc' = "visualize"
    /\ UNCHANGED << outcome, sigint, inputs, rngVars, factorVars, loopVars,
                    batch, report, visualized >>

\* create_visualizations(...), then main() ends
Visualize ==
    /\ Running /\ pc = "visualize"
    /\ visualized' = TRUE
    /\ pc' = "exit"
    /\ outcome' = "completed"
    /\ UNCHANGED << sigint, inputs, rngVars, factorVars, loopVars,
                    batch, report, displayed >>

(***************************************************************************)
(* Interruption                                                            *)
(***************************************************************************)
\* The user presses Ctrl-C: the signal handler marks KeyboardInterrupt pending
Sigint ==
    /\ outcome = "running" /\ ~sigint
    /\ sigint' = TRUE
    /\ UNCHANGED << inputs, pc, outcome, rngVars, factorVars, loopVars, outVars >>

\* Variant of KeyboardInterrupt: the handler keeps the partly filled batch
\* and main() goes on to analyse it
KeyboardInterrupt_KeepPartial ==
    /\ outcome = "running" /\ sigint
    /\ sigint' = FALSE
    /\ IF portfolio_paths = NoArray
       THEN Unwind("interrupted")
       ELSE /\ batch' = [ bound |-> TRUE,
                          portfolio_paths |-> portfolio_paths,
                          final_values |-> portfolio_paths[horizon_days],
                          returns |-> Returns(portfolio_paths[horizon_days], initial_value) ]
            /\ pc' = "analyze"
            /\ UNCHANGED << outcome, loopVars >>
    /\ UNCHANGED << inputs, rngVars, factorVars, report, displayed, visualized >>

\* The interpreter raises the pending KeyboardInterrupt before it runs the
\* next statement.  mc: except KeyboardInterrupt; sim: not caught by
\* "except Exception", the process ends with the traceback.
KeyboardInterrupt ==
    /\ outcome = "running" /\ sigint
    /\ Unwind(IF prog = "mc" THEN "interrupted" ELSE "killed")
    /\ UNCHANGED << sigint, inputs, rngVars, factorVars, report, displayed, visualized >>

Next ==
    \/ Start
    \/ GetPortfolio
    \/ Download
    \/ Estimate
    \/ Factorize
    \/ FactorizeRetry
    \/ Setup
    \/ Step
    \/ Store
    \/ Replay
    \/ Return
    \/ Analyze
    \/ PrintResults
    \/ Visualize
    \/ Sigint
    \/ KeyboardInterrupt

Spec == Init /\ [][Next]_vars

(***************************************************************************)
(* The analyzer as a function of the terminal values                       *)
(***************************************************************************)
\* length of the longest vector of terminal values
MaxVec == 4

\* terminal values: total loss, half, unchanged, 5/4, double, overflow, nan
TerminalValues ==
    { Fin(0), Fin((initial_value * TicksPerUnit) \div 2), Fin(initial_value * TicksPerUnit),
      Fin((5 * initial_value * TicksPerUnit) \div 4), Fin(2 * initial_value * TicksPerUnit),
      Inf, NaN }

Vectors == UNION { [1..n -> TerminalValues] : n \in 1..MaxVec }

\* main() holds the batch the simulation returned, whatever its last row is
AnalyzerInit ==
    /\ prog \in {"mc", "sim"}
    /\ tickers = << "AAPL" >>
    /\ portfolio = << Rat(IF prog = "mc" THEN 100 ELSE 1, 1) >>
    /\ columns = << "AAPL" >>
    /\ scen = OneAsset(3, 0, 1, 2)
    /\ weights = << Rat(1, 1) >>
    /\ horizon_days = 1
    /\ rng = SeedState(Seed)
    /\ \E v \in Vectors :
         /\ n_sims = Len(v)
         /\ batch = [ bound |-> TRUE,
                      portfolio_paths |->
                        [t \in 0..1 |-> IF t = 0
                                        THEN Full(Len(v), Fin(initial_value * TicksPerUnit))
                                        ELSE v],
                      final_values |-> v,
                      returns |-> IF prog = "sim" THEN Returns(v, initial_value) ELSE <<>> ]
         /\ sim = Len(v)
    /\ pc = "analyze"
    /\ outcome = "running"
    /\ sigint = FALSE
    /\ seeded = (prog = "sim")
    /\ draws = 0
    /\ daily_returns = NoArray
    /\ daily_cov = Mat(<<>>)
    /\ chol = NoFactor
    /\ chol_calls = 0
    /\ chol_errors = 0
    /\ reg_steps = 0
    /\ shares_held = NoArray
    /\ random_base = 0
    /\ day = 0
    /\ current_prices = NoArray
    /\ temp_prices = NoArray
    /\ portfolio_paths = NoArray
    /\ final_prices = NoArray
    /\ stock_paths = NoArray
    /\ steps = 0
    /\ report = NoReport
    /\ displayed = FALSE
    /\ visualized = FALSE

AnalyzerNext == Analyze \/ PrintResults

AnalyzerSpec == AnalyzerInit /\ [][AnalyzerNext]_vars

(***************************************************************************)
(* Properties                                                              *)
(***************************************************************************)
\* the investment the holdings are sized from, per script
V0 == IF prog = "mc" THEN SharesNotional ELSE initial_value

\* C1: within one run the factorization is attempted at most twice and the
\* covariance is regularized at most once: the first attempt is made on the
\* estimated covariance, the regularization and the single retry happen only
\* after a failed first attempt, and a failed retry ends the run with an
\* error instead of a further attempt.
C1_BoundedFactorization ==
    /\ chol_calls <= 2
    /\ reg_steps <= 1
    /\ chol_errors <= chol_calls
    /\ (reg_steps = 1) => (chol_errors >= 1 /\ chol_calls = 2)
    /\ (chol_calls = 2) => (reg_steps = 1)
    /\ (chol_calls >= 1 /\ reg_steps = 0) => (daily_cov = scen.cov)
    /\ (reg_steps = 1) => (daily_cov = AddEye(scen.cov))
    /\ (chol_errors = 2) => (outcome = "error" /\ pc = "exit")
    /\ (pc = "chol_retry") => (chol_calls = 1 /\ chol_errors = 1)

\* the first attempt failed, the covariance was regularized once and the
\* retry succeeded
C1_RetrySucceeded ==
    /\ chol_calls = 2
    /\ chol_errors = 1
    /\ reg_steps = 1
    /\ chol.ok
    /\ pc = "setup"

\* C2: when both factorization attempts fail the run is aborted: no GBM step
\* has been executed, no path array exists, nothing is returned to main(),
\* and no report is computed, displayed or visualized.
C2_DoubleFailureAborts ==
    (chol_errors >= 2) =>
        /\ outcome = "error"
        /\ pc = "exit"
        /\ steps = 0
        /\ draws = 0
        /\ portfolio_paths = NoArray
        /\ stock_paths = NoArray
        /\ final_prices = NoArray
        /\ ~batch.bound
        /\ report = NoReport
        /\ ~displayed
        /\ ~visualized

\* both attempts have failed
C2_BothAttemptsFailed ==
    /\ chol_calls = 2
    /\ chol_errors = 2
    /\ reg_steps = 1

\* C3: after any number of GBM updates every price in the current price
\* vector (and in the second pass's vector) is strictly positive, provided
\* the drift and the diffusion are finite.
FiniteParameters == ~daily_cov.nan /\ ~chol.nan /\ chol.ok

StrictlyPositive(p) == IsInf(p) \/ (IsFin(p) /\ p.v > 0)

C3_PricesStayPositive ==
    FiniteParameters =>
        /\ \A i \in 1..Len(current_prices) : StrictlyPositive(current_prices[i])
        /\ \A i \in 1..Len(temp_prices) : StrictlyPositive(temp_prices[i])

\* C4: the holdings are the share vector V0 * w / P0 computed once and never
\* changed while paths are simulated, every recorded portfolio value is the
\* dot product of that vector with the prices of its step, and the returns
\* are the terminal values divided by the same V0, minus one.
RecordedFromHoldings ==
    IF prog = "sim"
    THEN \A t \in 1..horizon_days : \A s \in 1..n_sims :
             portfolio_paths[t][s] = Dot(stock_paths[t][s], Shares(V0, weights, scen.p0))
    ELSE /\ \A s \in 1..n_sims :
              (s <= sim) =>
                portfolio_paths[horizon_days][s] =
                    Dot(final_prices[s], Shares(V0, weights, scen.p0))
         /\ (pc = "replay" /\ day >= 2) =>
                portfolio_paths[day - 1][sim + 1] =
                    Dot(temp_prices, Shares(V0, weights, scen.p0))
         /\ (pc \in {"step", "store", "return"} /\ sim >= 1 /\ sim - 1 < RetainedPaths) =>
                portfolio_paths[horizon_days][sim] =
                    Dot(temp_prices, Shares(V0, weights, scen.p0))

Degenerate ==
    /\ scen.n = 1
    /\ scen.mu = << Fin(0) >>
    /\ scen.cov = Mat(<< << 0 >> >>)
    /\ weights = << Rat(1, 1) >>

C5_DegenerateTerminalIsV0 ==
    (Degenerate /\ batch.bound) =>
        \A s \in 1..n_sims : batch.final_values[s] = Fin(V0 * TicksPerUnit)

\* C6: the generator is seeded before the first random draw, so that the
\* terminal values are a function of the inputs and the seed.
C6_SeededBeforeFirstDraw == (draws > 0) => seeded

\* C7: a terminal value that is not finite never enters the analyzer: every
\* report is computed from finite terminal values only.
C7_ReportFromFiniteValues ==
    (report.by # "none") =>
        \A s \in 1..Len(report.final_values) : IsFin(report.final_values[s])

\* C8: cancellation is all-or-nothing.  While an interrupt is pending no
\* further GBM step runs and the next step of the program is the abort;
\* an aborted run holds no path array and no batch; and nothing is
\* reported, displayed or visualized from fewer than N complete paths.
Aborted == outcome \in {"interrupted", "killed"}

C8_AllOrNothing ==
    /\ [](Aborted => (portfolio_paths = NoArray /\ ~batch.bound /\ pc = "exit"))
    /\ []((sim < n_sims) =>
            (~batch.bound /\ report = NoReport /\ ~displayed /\ ~visualized))
    /\ [][(sigint /\ outcome = "running") =>
            (Aborted' /\ steps' = steps /\ report' = report /\ visualized' = visualized)]_vars

\* the interrupt arrived after the first GBM step and before the last path
\* was complete, and the run has been aborted
C8_AbortedMidSimulation ==
    /\ Aborted
    /\ sigint
    /\ steps > 0
    /\ sim < n_sims

\* C9: the 5% conditional value at risk in the report is always a defined
\* number.
C9_CVaRDefined == (report.by = "analyze_results") => (report.cvar_5.k # "nan")

\* C10: whenever at least one return is at or below VaR_5, the reported
\* CVaR_5 (the mean of those returns) is at most VaR_5.
TailNonEmpty == \E s \in 1..Len(report.returns) : QLe(report.returns[s], report.var_5)

C10_CVaRAtMostVaR ==
    (report.by = "analyze_results" /\ TailNonEmpty) => QLe(report.cvar_5, report.var_5)

\* a report whose tail is not empty and whose CVaR_5 is strictly below VaR_5
C10_TailBelowVaR ==
    /\ report.by = "analyze_results"
    /\ TailNonEmpty
    /\ QLt(report.cvar_5, report.var_5)

\* C11: the probability of loss in a report is the share of the returns that
\* are strictly negative, a return of exactly 0 (or nan) not counted:
\* display_results reports count/N, a number in [0, 1]; analyze_results
\* reports the same share as a percentage, 100 * count/N in [0, 100].
Losses == { s \in 1..Len(report.returns) :
              report.returns[s].k # "nan" /\ Sign(report.returns[s]) < 0 }

C11_ProbabilityOfLoss ==
    (report.by # "none") =>
        LET N == Len(report.returns)
            c == Cardinality(Losses)
        IN  IF report.by = "analyze_results"
            THEN /\ report.prob_loss = Rat(100 * c, N)
                 /\ QLe(QZero, report.prob_loss)
                 /\ QLe(report.prob_loss, Rat(100, 1))
            ELSE /\ report.prob_loss = Rat(c, N)
                 /\ QLe(QZero, report.prob_loss)
                 /\ QLe(report.prob_loss, Rat(1, 1))

\* a report of analyze_results over a loss, a break-even path and a gain
C11_LossBreakEvenGain ==
    /\ report.by = "analyze_results"
    /\ \E s \in 1..Len(report.returns) : report.returns[s] = QZero
    /\ \E s \in 1..Len(report.returns) : QLt(report.returns[s], QZero)
    /\ \E s \in 1..Len(report.returns) : QLt(QZero, report.returns[s])

\* C11 as stated: both reports give count/N, a number in [0, 1]
C11_FractionInBothReports ==
    (report.by # "none") =>
        /\ report.prob_loss = Rat(Cardinality(Losses), Len(report.returns))
        /\ QLe(report.prob_loss, Rat(1, 1))

\* C12: a price panel with fewer than 2 observations never yields a mean
\* vector or a covariance matrix that is passed on to the factorization or
\* to the simulation: the estimation ends the run with an error.
C12_InsufficientDataRejected ==
    (scen.T < 2) =>
        /\ chol_calls = 0
        /\ steps = 0
        /\ pc \in {"main", "input", "download", "estimate", "exit"}
        /\ (pc = "exit") => (outcome # "completed")

\* C15: in every GBM step the variance used in the drift and in the
\* diffusion is the diagonal of the covariance as it was estimated, whether
\* or not the regularization was applied.
C15_VarianceOfEstimate ==
    (pc \in {"step", "store", "replay"}) =>
        \A i \in 1..Dim(daily_cov) : Diag(daily_cov, i) = Diag(scen.cov, i)

\* C16: the second pass of run_monte_carlo_portfolio, which rebuilds the
\* full path of a retained simulation, reads the same rows of random_matrix
\* as the first pass and draws nothing: when it ends, its prices are the
\* recorded terminal prices of that simulation and the last row of the path
\* matrix holds the portfolio value of those prices.
SecondPassDone ==
    /\ prog = "mc"
    /\ pc \in {"step", "store", "return", "analyze"}
    /\ sim >= 1
    /\ sim - 1 < RetainedPaths

C16_SecondPassSameShocks ==
    /\ [](SecondPassDone =>
            /\ temp_prices = final_prices[sim]
            /\ portfolio_paths[horizon_days][sim] = Dot(final_prices[sim], shares_held))
    /\ [][(pc = "replay") => (draws' = draws /\ rng' = rng)]_vars

\* the second pass of a simulation has ended on prices that moved
C16_PathRebuilt ==
    /\ SecondPassDone
    /\ horizon_days >= 2
    /\ temp_prices # InitialPrices
    /\ \A i \in 1..Len(temp_prices) : IsFin(temp_prices[i]) /\ temp_prices[i].v > 0

\* C16 as stated: the second pass uses shocks of its own, drawn in addition
\* to the n_sims * horizon_days * n_assets values of the first pass
C16_SecondPassOwnShocks ==
    SecondPassDone => (draws >= (n_sims + 1) * horizon_days * NAssets)

\* the tolerance on the sum of the weights is 1 / Tolerance
Tolerance == 10 ^ 6

\* every weight in (0, 1] and the weights sum to 1 within the tolerance
InUnitInterval(x) == QLt(QZero, x) /\ QLe(x, Rat(1, 1))
SumsToOne(w) ==
    LET diff == QSub(QSum(w), Rat(1, 1))
    IN  diff.k = "fin" /\ Abs(diff.n) <= diff.d \div Tolerance
ValidWeights(w) == (\A i \in 1..Len(w) : InUnitInterval(w[i])) /\ SumsToOne(w)

\* C13: no random number is drawn and no simulation step runs on inputs that
\* fail validation: whenever a draw or a step has happened, the weights are
\* valid and the price panel is not empty and holds positive prices only.
C13_NoWorkOnInvalidInputs ==
    (draws > 0 \/ steps > 0) =>
        /\ ValidWeights(weights)
        /\ scen.T > 0
        /\ scen.positive

\* the composition returned to main(), as fractions
Composition ==
    IF prog = "mc" THEN [i \in 1..Len(portfolio) |-> QDivInt(portfolio[i], 100)]
    ELSE portfolio

\* C14: the composition returned by get_user_portfolio / get_portfolio_input
\* has every weight in (0, 1] and sums to 1 within 1e-6, and so does the
\* weight vector used by the simulation.
C14_WeightsNormalised ==
    /\ (tickers # << >>) => ValidWeights(Composition)
    /\ (weights # << >>) => SumsToOne(weights)

\* the share counts are whole numbers: V0 * w / p0 divides without remainder
WholeShares ==
    \A i \in 1..Len(scen.p0) : (V0 * weights[i].n) % (weights[i].d * scen.p0[i]) = 0

\* C17: every portfolio path has H + 1 entries and, for every simulation
\* whose path is kept in full, entry t is the dot product of the share
\* vector with the prices of step t; entry 0, which is set to the initial
\* investment, is the dot product of the share vector with p0.
C17_PathFromHoldings ==
    (portfolio_paths # NoArray /\ WholeShares) =>
        /\ DOMAIN portfolio_paths = 0..horizon_days
        /\ \A t \in 0..horizon_days : Len(portfolio_paths[t]) = n_sims
        /\ \A s \in 1..n_sims : portfolio_paths[0][s] = Dot(InitialPrices, shares_held)
        /\ RecordedFromHoldings

\* C18: position i of the weight vector holds the weight the user entered
\* for the ticker of column i of the price panel, whatever the order of the
\* columns.
C18_WeightsFollowColumns ==
    (weights # << >>) =>
        \A i \in 1..Len(weights) :
            weights[i] = Composition[IndexOf(tickers, columns[i])]

=============================================================================
